---- MODULE Spec2Model ----
(***************************************************************************)
(* named-events: event sources with an ordered listener array.             *)
(*                                                                         *)
(* Two event sources are modelled side by side:                            *)
(*   "custom"  createCustomEvent()  (createEventT() of the index file has  *)
(*             the same body, statement for statement)                     *)
(*   "backed"  createValueBackedEvent(initValue)                           *)
(* JavaScript is single threaded and every operation of the library runs   *)
(* to completion, so each action is one whole call made by client code,    *)
(* the callbacks it runs included.                                         *)
(*                                                                         *)
(* Arrays are 1-based here and 0-based in the source.                      *)
(***************************************************************************)
EXTENDS Integers, Sequences, FiniteSets, TLC

\* ---------------------------------------------------------------- bounds
\* evt()/addListener() calls made over a run
MaxRegs == 3
\* evt()/addListener() calls made on the value-backed source over a run
MaxBackedRegs == 2
\* remover closures kept by the client
MaxRemovers == 1
\* stored values are 0..MaxValue
MaxValue == 1
\* functions handed to one joinRemoveListeners(...) call
MaxJoined == 2

\* ------------------------------------------------------------ the objects
Source == {"custom", "backed"}

\* Listener functions, compared by identity. f and g only record that they
\* ran; s calls its own remover (removeListener(s) of the source that invoked
\* it) every time it runs.
Plain == {"f", "g"}
SelfRemoving == {"s"}
Listener == Plain \cup SelfRemoving

\* Further listener functions: t throws every time it runs; a registers g on
\* the source that invoked it (evt.addListener(g)) unless g is registered
\* there; n, invoked by the value-backed source, calls setValue(0).
Failing == {"t"}
Adding == {"a"}
Resetting == {"n"}

Value == 0..MaxValue

\* What setValue accepts: a literal value, or a function of the current value
\* (keep: v=>v, succ: v=>v+1 wrapping at MaxValue).
FnName == {"keep", "succ"}
Literal(x) == [typeof |-> "number", lit |-> x, fn |-> "none"]
Function(n) == [typeof |-> "function", lit |-> 0, fn |-> n]
SetValueArg == {Literal(x) : x \in Value} \cup {Function(n) : n \in FnName}

\* Argument tuples handed to the custom source's trigger(...args).
TriggerArgs == {<<>>, <<1, 0>>}

VARIABLES
    listeners,  \* [Source -> Seq(Listener)]: the `listeners` array of each source
    value,      \* the `value` cell of the value-backed source
    removers,   \* the closures returned by evt(listener) calls, in creation order
    regIds,     \* history: for each source, the registration id of each array entry
    nextReg,    \* history: the id the next registration gets
    backedRegs, \* history: the registrations made on the value-backed source
    lastChange, \* history: candidate of the last value call that differed from the stored value
    last        \* history: the last call made, its state before, its invocations, its result

vars == <<listeners, value, removers, regIds, nextReg, backedRegs, lastChange, last>>

\* ---------------------------------------------------------- array helpers
\* A listener put at the front of the array instead of at its end.
unshift(ary, item) == <<item>> \o ary

\* listeners.push(listener)
push(ary, item) == Append(ary, item)

\* ary.splice(i,1)
splice(ary, i) == SubSeq(ary, 1, i - 1) \o SubSeq(ary, i + 1, Len(ary))

\* The for loop of aryRemoveItem: the first index holding item, 0 when none.
RECURSIVE aryScan(_, _, _)
aryScan(ary, item, i) ==
    IF i > Len(ary) THEN 0
    ELSE IF ary[i] = item THEN i
    ELSE aryScan(ary, item, i + 1)

\* Removal written as ary.splice(ary.indexOf(item),1): with no match
\* indexOf is -1 and splice(-1,1) takes the last element out.
aryRemoveItemByIndexOf(ary, item) ==
    LET i == aryScan(ary, item, 1)
    IN  IF i = 0
        THEN (IF Len(ary) = 0
              THEN [ary |-> ary, removed |-> FALSE, at |-> 0]
              ELSE [ary |-> splice(ary, Len(ary)), removed |-> TRUE, at |-> Len(ary)])
        ELSE [ary |-> splice(ary, i), removed |-> TRUE, at |-> i]

\* aryRemoveItem(ary,item): the array afterwards, the boolean returned, and
\* the index spliced out (0 when nothing was).
aryRemoveItem(ary, item) ==
    LET i == aryScan(ary, item, 1)
    IN  IF i = 0
        THEN [ary |-> ary, removed |-> FALSE, at |-> 0]
        ELSE [ary |-> splice(ary, i), removed |-> TRUE, at |-> i]

\* ------------------------------------------------- operations on a state
\* A state st is [listeners, regIds, value, trace, threw, nextReg, backedRegs,
\* lastChange, overflow]: the variables, the listener invocations of the call
\* being run (trace), whether an exception is propagating out of it (threw),
\* and whether a callback asked for a registration beyond the bounds of the
\* model (overflow).

\* removeListener over one `listeners` array that all sources share.
removeListenerOfSharedArray(st, src, listener) ==
    LET r == aryRemoveItem(st.listeners[src], listener)
        o == IF src = "custom" THEN "backed" ELSE "custom"
        q == aryRemoveItem(st.listeners[o], listener)
    IN  [st EXCEPT !.listeners[src] = r.ary,
                   !.regIds[src] = IF r.removed THEN splice(@, r.at) ELSE @,
                   !.listeners[o] = q.ary,
                   !.regIds[o] = IF q.removed THEN splice(@, q.at) ELSE @]

\* removeListener(listener) of source src: each source has the `listeners`
\* array its create call made.
removeListenerOf(st, src, listener) ==
    LET r == aryRemoveItem(st.listeners[src], listener)
    IN  [st EXCEPT !.listeners[src] = r.ary,
                   !.regIds[src] = IF r.removed THEN splice(@, r.at) ELSE @]

\* addListener(listener) of source src.
addListenerOf(st, src, listener) ==
    [st EXCEPT !.listeners[src] = push(@, listener),
               !.regIds[src] = push(@, st.nextReg),
               !.nextReg = @ + 1,
               !.backedRegs = IF src = "backed" THEN @ + 1 ELSE @]

\* addListener(listener) called by a callback, within the bounds.
addListenerWithin(st, src, listener) ==
    IF st.nextReg <= MaxRegs /\ (src = "backed" => st.backedRegs < MaxBackedRegs)
    THEN addListenerOf(st, src, listener)
    ELSE [st EXCEPT !.overflow = TRUE]

\* Step of the array iterator behind `for(const l of listeners)`.
nextIndex(i) == i + 1

\* The listener handed the argument the call was made with, not the cell.
argumentOfCall(st, src, args) == args

\* What the loop hands a listener: `(l as any).apply(null,args)` in the custom
\* source, `l(value)`, the cell as it is at that moment, in the value-backed.
listenerArguments(st, src, args) ==
    IF src = "backed" THEN <<st.value>> ELSE args

\* The comparison inverted.
strictNotEquals(a, b) == a # b

\* `v===value`
strictEquals(a, b) == a = b

\* `typeof v === 'function'` and the call `v(value)`.
candidateOf(v, current) ==
    IF v.typeof = "function"
    THEN (IF v.fn = "keep" THEN current ELSE (current + 1) % (MaxValue + 1))
    ELSE v.lit

RECURSIVE callback(_, _, _)
RECURSIVE forOfListeners(_, _, _, _)
RECURSIVE setValueBody(_, _)

\* The loop written to start over whenever a listener shortened the array.
RECURSIVE forOfListenersRestarting(_, _, _, _)
forOfListenersRestarting(st, src, args, i) ==
    IF i > Len(st.listeners[src]) THEN st
    ELSE LET l == st.listeners[src][i]
             inv == [fn |-> l, reg |-> st.regIds[src][i],
                     args |-> listenerArguments(st, src, args), stored |-> st.value]
             ran == callback([st EXCEPT !.trace = Append(@, inv)], src, l)
         IN  IF ran.threw THEN ran
             ELSE IF Len(ran.listeners[src]) < Len(st.listeners[src])
             THEN forOfListenersRestarting(ran, src, args, 1)
             ELSE forOfListenersRestarting(ran, src, args, nextIndex(i))

\* `for(const l of listeners){ l(...) }`: the array iterator reads the live
\* array and its live length at every step. Nothing catches what a listener
\* throws: the loop ends there. A trace entry records the listener, its
\* registration, the arguments it got and what getValue() returned then.
forOfListeners(st, src, args, i) ==
    IF i > Len(st.listeners[src]) THEN st
    ELSE LET l == st.listeners[src][i]
             inv == [fn |-> l, reg |-> st.regIds[src][i],
                     args |-> listenerArguments(st, src, args), stored |-> st.value]
             ran == callback([st EXCEPT !.trace = Append(@, inv)], src, l)
         IN  IF ran.threw THEN ran
             ELSE forOfListeners(ran, src, args, nextIndex(i))

\* setValue putting the former value back when a listener throws.
setValueRollingBack(st, v) ==
    LET cand == candidateOf(v, st.value)
    IN  IF strictEquals(cand, st.value)
        THEN [st |-> st, ret |-> st.value]
        ELSE LET after == forOfListeners([st EXCEPT !.value = cand], "backed", <<cand>>, 1)
             IN  IF after.threw
                 THEN [st |-> [after EXCEPT !.value = st.value], ret |-> st.value]
                 ELSE [st |-> after, ret |-> after.value]

\* Body of setValue: resolve a function argument, compare, store, dispatch,
\* return the `value` cell. The result is the state afterwards and the value
\* returned (none when the call ends by an exception).
setValueBody(st, v) ==
    LET cand == candidateOf(v, st.value)
    IN  IF strictEquals(cand, st.value)
        THEN [st |-> st, ret |-> st.value]
        ELSE LET after == forOfListeners([st EXCEPT !.value = cand], "backed", <<cand>>, 1)
             IN  [st |-> after, ret |-> after.value]

\* The value-backed trigger dispatching a changed value without the
\* assignment `value=v`.
valueTriggerWithoutStore(st, v) ==
    IF strictEquals(v, st.value) THEN st
    ELSE forOfListeners(st, "backed", <<v>>, 1)

\* Body of the value-backed trigger: compare, store, dispatch.
valueTriggerBody(st, v) ==
    IF strictEquals(v, st.value) THEN st
    ELSE forOfListeners([st EXCEPT !.value = v], "backed", <<v>>, 1)

\* The body of listener l when source src invokes it. What a callback calls
\* and throws it does not catch.
callback(st, src, l) ==
    IF l \in SelfRemoving THEN removeListenerOf(st, src, l)
    ELSE IF l \in Failing THEN [st EXCEPT !.threw = TRUE]
    ELSE IF l \in Adding
    THEN (IF \E i \in 1..Len(st.listeners[src]) : st.listeners[src][i] = "g"
          THEN st
          ELSE addListenerWithin(st, src, "g"))
    ELSE IF l \in Resetting /\ src = "backed"
    THEN setValueBody([st EXCEPT !.lastChange = IF st.value # 0 THEN 0 ELSE @],
                      Literal(0)).st
    ELSE st

\* What joinRemoveListeners(...listeners) is handed: closures returned by
\* evt(listener), given by their place in removers, and functions of the
\* client's own, of which one that throws is modelled.
RemoverItem(r) == [kind |-> "remover", r |-> r]
ThrowingItem == [kind |-> "throws", r |-> 0]

\* `for(const l of listeners){ l(); }` of the closure joinRemoveListeners
\* returns, from position i on. rms is the removers with their called flags,
\* called the positions called so far. Nothing catches what l throws.
RECURSIVE forOfRemovers(_, _, _, _, _)
forOfRemovers(st, rms, items, i, called) ==
    IF i > Len(items) THEN [st |-> st, removers |-> rms, called |-> called]
    ELSE IF items[i].kind = "throws"
    THEN [st |-> [st EXCEPT !.threw = TRUE], removers |-> rms,
          called |-> Append(called, i)]
    ELSE LET c == rms[items[i].r]
         IN  forOfRemovers(removeListenerOf(st, c.src, c.listener),
                           [rms EXCEPT ![items[i].r].called = TRUE],
                           items, i + 1, Append(called, i))

\* ------------------------------------------------------------------ state
Now ==
    [listeners |-> listeners, regIds |-> regIds, value |-> value, trace |-> <<>>,
     threw |-> FALSE, nextReg |-> nextReg, backedRegs |-> backedRegs,
     lastChange |-> lastChange, overflow |-> FALSE]

\* The state a value call with candidate cand starts from.
NowCalling(cand) == [Now EXCEPT !.lastChange = IF cand # value THEN cand ELSE @]

\* The record of a call: the operation, its source, its listener argument
\* (fn), its value arguments (args; setValue's argument is next), the remover
\* called and whether this is its first call or a later one (rm, nth = 1 or
\* 2), the state before the call (pre), the listener invocations it made
\* (trace) and what it returned (ret, <<>> for void).
\* For a call of a joined remover, joined is the list of functions it was
\* made of and called the positions of that list it called, in order.
Called(op, src, fn, args, next, rm, nth, trace, ret) ==
    [op |-> op, src |-> src, fn |-> fn, args |-> args, next |-> next, rm |-> rm,
     nth |-> nth, pre |-> Now, trace |-> trace, ret |-> ret, threw |-> FALSE,
     joined |-> <<>>, called |-> <<>>]

\* The record of a call that dispatched: threw says the call ended by an
\* exception reaching its caller, and then it returned nothing.
Dispatched(op, src, args, next, st, ret) ==
    [Called(op, src, "f", args, next, 0, 0, st.trace, IF st.threw THEN <<>> ELSE ret)
        EXCEPT !.threw = st.threw]

NoCall == Called("none", "custom", "f", <<>>, Literal(0), 0, 0, <<>>, <<>>)

Init ==
    /\ listeners = [s \in Source |-> <<>>]
    /\ regIds = [s \in Source |-> <<>>]
    /\ value \in Value
    /\ removers = <<>>
    /\ nextReg = 1
    /\ backedRegs = 0
    /\ lastChange = value
    /\ last = NoCall

\* ---------------------------------------------------------------- actions
\* Whether the run may register once more on source src, and the count.
MayRegister(src) ==
    /\ nextReg <= MaxRegs
    /\ src = "backed" => backedRegs < MaxBackedRegs

Registered(src) ==
    /\ nextReg' = nextReg + 1
    /\ backedRegs' = IF src = "backed" THEN backedRegs + 1 ELSE backedRegs

\* evt(listener): push, and return a closure that calls removeListener(listener).
evt(src, l) ==
    /\ MayRegister(src)
    /\ Len(removers) < MaxRemovers
    /\ listeners' = [listeners EXCEPT ![src] = push(@, l)]
    /\ regIds' = [regIds EXCEPT ![src] = push(@, nextReg)]
    /\ removers' = Append(removers, [src |-> src, listener |-> l, reg |-> nextReg, called |-> FALSE])
    /\ Registered(src)
    /\ last' = Called("evt", src, l, <<>>, Literal(0), Len(removers) + 1, 0, <<>>, <<>>)
    /\ UNCHANGED <<value, lastChange>>

\* evt.addListener(listener)
addListener(src, l) ==
    /\ MayRegister(src)
    /\ listeners' = [listeners EXCEPT ![src] = push(@, l)]
    /\ regIds' = [regIds EXCEPT ![src] = push(@, nextReg)]
    /\ Registered(src)
    /\ last' = Called("addListener", src, l, <<>>, Literal(0), 0, 0, <<>>, <<>>)
    /\ UNCHANGED <<value, removers, lastChange>>

\* evt.removeListener(listener)
removeListener(src, l) ==
    LET st == removeListenerOf(Now, src, l)
    IN  /\ listeners' = st.listeners
        /\ regIds' = st.regIds
        /\ last' = Called("removeListener", src, l, <<>>, Literal(0), 0, 0, <<>>, <<>>)
        /\ UNCHANGED <<value, removers, nextReg, backedRegs, lastChange>>

\* A call of the closure evt(listener) returned: removeListener(listener).
remover(r) ==
    LET c == removers[r]
        st == removeListenerOf(Now, c.src, c.listener)
    IN  /\ listeners' = st.listeners
        /\ regIds' = st.regIds
        /\ removers' = [removers EXCEPT ![r].called = TRUE]
        /\ last' = Called("remover", c.src, c.listener, <<>>, Literal(0), r,
                          IF c.called THEN 2 ELSE 1, <<>>, <<>>)
        /\ UNCHANGED <<value, nextReg, backedRegs, lastChange>>

\* trigger(...args) of the custom source.
trigger(args) ==
    LET st == forOfListeners(Now, "custom", args, 1)
    IN  /\ ~st.overflow
        /\ listeners' = st.listeners
        /\ regIds' = st.regIds
        /\ nextReg' = st.nextReg
        /\ backedRegs' = st.backedRegs
        /\ last' = Dispatched("trigger", "custom", args, Literal(0), st, <<>>)
        /\ UNCHANGED <<value, removers, lastChange>>

\* trigger(v) of the value-backed source.
valueTrigger(v) ==
    LET st == valueTriggerBody(NowCalling(v), v)
    IN  /\ ~st.overflow
        /\ listeners' = st.listeners
        /\ regIds' = st.regIds
        /\ nextReg' = st.nextReg
        /\ backedRegs' = st.backedRegs
        /\ value' = st.value
        /\ lastChange' = st.lastChange
        /\ last' = Dispatched("trigger", "backed", <<v>>, Literal(0), st, <<>>)
        /\ UNCHANGED removers

\* setValue(v), v a literal or a function of the current value; returns `value`.
setValue(v) ==
    LET r == setValueBody(NowCalling(candidateOf(v, value)), v)
        st == r.st
    IN  /\ ~st.overflow
        /\ listeners' = st.listeners
        /\ regIds' = st.regIds
        /\ nextReg' = st.nextReg
        /\ backedRegs' = st.backedRegs
        /\ value' = st.value
        /\ lastChange' = st.lastChange
        /\ last' = Dispatched("setValue", "backed", <<>>, v, st, <<r.ret>>)
        /\ UNCHANGED removers

\* getValue() and evt.getValue(): the same closure, `()=>value`.
getValue ==
    /\ last' = Called("getValue", "backed", "f", <<>>, Literal(0), 0, 0, <<>>, <<value>>)
    /\ UNCHANGED <<listeners, regIds, value, removers, nextReg, backedRegs, lastChange>>

\* The lists of at most MaxJoined functions the client can join.
JoinItems == {RemoverItem(r) : r \in 1..Len(removers)} \cup {ThrowingItem}
JoinLists == UNION {[1..n -> JoinItems] : n \in 1..MaxJoined}

\* joinRemoveListeners(...items)(): a call of the joined remover.
joinRemoveListeners(items) ==
    LET r == forOfRemovers(Now, removers, items, 1, <<>>)
    IN  /\ listeners' = r.st.listeners
        /\ regIds' = r.st.regIds
        /\ removers' = r.removers
        /\ last' = [Called("joined", "custom", "f", <<>>, Literal(0), 0, 0, <<>>, <<>>)
                       EXCEPT !.threw = r.st.threw, !.joined = items, !.called = r.called]
        /\ UNCHANGED <<value, nextReg, backedRegs, lastChange>>

\* Calls on the source made by createCustomEvent(), by a program whose
\* listener functions are those of U.
CustomCalls(U) ==
    \/ \E l \in U : evt("custom", l)
    \/ \E l \in U : addListener("custom", l)
    \/ \E l \in U : removeListener("custom", l)
    \/ \E r \in 1..Len(removers) : remover(r)
    \/ \E args \in TriggerArgs : trigger(args)

\* Calls on the source made by createValueBackedEvent(initValue).
BackedCalls(U) ==
    \/ \E l \in U : evt("backed", l)
    \/ \E l \in U : addListener("backed", l)
    \/ \E l \in U : removeListener("backed", l)
    \/ \E r \in 1..Len(removers) : remover(r)
    \/ \E v \in Value : valueTrigger(v)
    \/ \E v \in SetValueArg : setValue(v)
    \/ getValue

NextCustom == CustomCalls(Listener)

NextBacked == BackedCalls(Listener)

Next == NextCustom \/ NextBacked

\* A program using both sources.
Spec == Init /\ [][Next]_vars

\* A program using the custom source only.
SpecCustom == Init /\ [][NextCustom]_vars

\* A program using the value-backed source only.
SpecBacked == Init /\ [][NextBacked]_vars

\* Programs with a listener that throws.
NextCustomFailing == CustomCalls({"f", "s", "t"})
SpecCustomFailing == Init /\ [][NextCustomFailing]_vars

NextBackedFailing == BackedCalls({"f", "s", "t"})
SpecBackedFailing == Init /\ [][NextBackedFailing]_vars

\* The value-backed source with listeners that throw and listeners that call
\* setValue from inside the dispatch.
NextBackedReentrant == BackedCalls({"f", "s", "t", "n"})
SpecBackedReentrant == Init /\ [][NextBackedReentrant]_vars

\* A program using both sources, with one listener function, s, that it may
\* register on either and that removes itself from the source invoking it.
NextTwoSources == CustomCalls({"s"}) \/ BackedCalls({"s"})
SpecTwoSources == Init /\ [][NextTwoSources]_vars

\* A program that registers, on either source, listeners that register g
\* from inside the dispatch, remove themselves, or throw, and that may take
\* g off again.
DispatchCalls(U) ==
    \/ \E src \in Source, l \in U : addListener(src, l)
    \/ \E src \in Source : removeListener(src, "g")
    \/ \E args \in TriggerArgs : trigger(args)
    \/ \E v \in Value : valueTrigger(v)
    \/ \E v \in SetValueArg : setValue(v)

NextAdding == DispatchCalls({"a", "s", "t"})
SpecAdding == Init /\ [][NextAdding]_vars

\* A program that joins removers of the custom source.
NextJoining ==
    \/ CustomCalls(Listener)
    \/ \E items \in JoinLists : joinRemoveListeners(items)
SpecJoining == Init /\ [][NextJoining]_vars

\* ------------------------------------------------------ reading a call
\* The array of the called source before and after the last call.
Before == last.pre.listeners[last.src]
BeforeIds == last.pre.regIds[last.src]
After == listeners[last.src]
AfterIds == regIds[last.src]

\* How many entries of seq equal x, and how many invocations of trace are
\* of listener x, or of registration id.
Count(seq, x) == Cardinality({i \in 1..Len(seq) : seq[i] = x})
Invocations(x) == Cardinality({i \in 1..Len(last.trace) : last.trace[i].fn = x})
InvocationsOfReg(id) == Cardinality({i \in 1..Len(last.trace) : last.trace[i].reg = id})

\* seq without its entry at position i.
Without(seq, i) == [k \in 1..(Len(seq) - 1) |-> IF k < i THEN seq[k] ELSE seq[k + 1]]

\* The position of registration id in ids, 0 when it is not there.
PositionOf(ids, id) ==
    IF \E i \in 1..Len(ids) : ids[i] = id
    THEN CHOOSE i \in 1..Len(ids) : ids[i] = id
    ELSE 0

\* The candidate of the last setValue call.
Candidate == candidateOf(last.next, last.pre.value)

\* ----------------------------------------------------------------- claims

\* C1: when a listener L that calls its own remover sits in the Registry, one
\* trigger() call invokes every other listener registered after L exactly
\* once, and the registration of L that ran is gone afterwards, so the next
\* trigger() does not invoke it. Violated by the code: the removal shifts the
\* array under the running iterator and the listener after L is skipped.
C1_SelfRemovalSkipsNobody ==
    (last.op = "trigger" /\ last.src = "custom") =>
        /\ \A i \in 1..Len(Before) : \A j \in 1..Len(Before) :
               (Before[i] \in SelfRemoving /\ i < j /\ Before[j] # Before[i])
                   => InvocationsOfReg(BeforeIds[j]) = 1
        /\ \A k \in 1..Len(last.trace) :
               last.trace[k].fn \in SelfRemoving
                   => PositionOf(AfterIds, last.trace[k].reg) = 0

\* C2: when no listener in the Registry touches the Registry (all are plain),
\* one trigger(...args) call of the custom source invokes the registered
\* listeners once each, in the order they were registered, each with args.
C2_TriggerInRegistrationOrder ==
    (last.op = "trigger" /\ last.src = "custom"
        /\ \A i \in 1..Len(Before) : Before[i] \in Plain) =>
        /\ Len(last.trace) = Len(Before)
        /\ \A i \in 1..Len(Before) :
               /\ last.trace[i].fn = Before[i]
               /\ last.trace[i].reg = BeforeIds[i]
               /\ last.trace[i].args = last.args
        /\ \A i \in 1..Len(last.trace) : \A j \in 1..Len(last.trace) :
               i < j => last.trace[i].reg < last.trace[j].reg
        /\ After = Before

\* C2 witness: a trigger with arguments over three plain registrations, one
\* of them made through evt(listener), two listeners distinct.
C2_Witness ==
    /\ last.op = "trigger" /\ last.src = "custom"
    /\ last.args = <<1, 0>>
    /\ Before = <<"g", "f", "g">>
    /\ Len(removers) = 1
    /\ Len(last.trace) = 3

\* C3: the first call of a remover whose listener is registered removes one
\* registration, and every later call of that remover leaves the Registry
\* unchanged. Violated by the code: the closure holds the listener, not the
\* registration, so a later call removes another registration of the same
\* listener.
C3_RemoverIdempotent ==
    last.op = "remover" =>
        /\ (last.nth = 1 /\ Count(Before, last.fn) > 0)
               => Len(After) = Len(Before) - 1
        /\ last.nth > 1 => After = Before

\* C4: the first call of a remover whose registration is still in the Registry
\* leaves the Registry as it was with exactly that registration's entry
\* deleted. Violated by the code: aryRemoveItem deletes the first entry
\* holding the same listener, which may be an earlier registration.
C4_RemoverDeletesOwnEntry ==
    (last.op = "remover" /\ last.nth = 1
        /\ PositionOf(BeforeIds, removers[last.rm].reg) > 0) =>
        After = Without(Before, PositionOf(BeforeIds, removers[last.rm].reg))

\* C5: a setValue(next) whose candidate is identical to the stored value
\* changes nothing: the stored value and the Registry stay, no listener is
\* invoked, and the call returns the prior value.
C5_SetValueEqualIsNoOp ==
    (last.op = "setValue" /\ Candidate = last.pre.value) =>
        /\ value = last.pre.value
        /\ last.trace = <<>>
        /\ last.ret = <<last.pre.value>>
        /\ After = Before

\* C5 witness: setValue(v=>v) on a source that has listeners registered.
C5_Witness ==
    /\ last.op = "setValue"
    /\ last.next = Function("keep")
    /\ Len(Before) = 2
    /\ last.trace = <<>>
    /\ last.ret = <<value>>

\* C6: a setValue(next) whose candidate differs from the stored value stores
\* the candidate, invokes every listener that was in the Registry once, in
\* insertion order, with the candidate as sole argument, and returns the
\* candidate. Violated by the code when a listener removes itself during the
\* dispatch: the listener after it is skipped.
C6_SetValueChangeDispatchesToAll ==
    (last.op = "setValue" /\ Candidate # last.pre.value) =>
        /\ value = Candidate
        /\ last.ret = <<Candidate>>
        /\ Len(last.trace) = Len(Before)
        /\ \A i \in 1..Len(Before) :
               i <= Len(last.trace) =>
                   /\ last.trace[i].fn = Before[i]
                   /\ last.trace[i].args = <<Candidate>>

\* C7: the stored value, and what getValue() returns, is the candidate of the
\* last setValue/trigger call whose candidate differed from the value stored
\* when it was made, or the initial value when there was no such call.
C7_ValueIsLastChange ==
    /\ value = lastChange
    /\ last.op = "getValue" => last.ret = <<lastChange>>

\* C7 witness: a setValue(v=>v+1) that changed the value and dispatched it.
C7_Witness ==
    /\ last.op = "setValue"
    /\ last.next = Function("succ")
    /\ value # last.pre.value
    /\ value = lastChange
    /\ Len(last.trace) > 0

\* C8: every registration that is in the Registry when trigger is called is
\* invoked during that call, whatever the callbacks remove. Violated by the
\* code: a removal during the dispatch shifts the entries after it one place
\* down and the iterator steps over the next one.
C8_TriggerCoversRegistryAtCall ==
    (last.op = "trigger" /\ last.src = "custom") =>
        \A i \in 1..Len(Before) : InvocationsOfReg(BeforeIds[i]) >= 1

\* C9: a listener with k registrations is invoked exactly k times by one
\* trigger call, and removeListener(f) with k >= 1 lowers the registrations of
\* f by one and leaves the count of every other listener. Violated by the
\* code in its first half when a listener removes itself during the dispatch.
C9_DuplicatesCounted ==
    /\ (last.op = "trigger" /\ last.src = "custom") =>
           \A f \in Listener : Invocations(f) = Count(Before, f)
    /\ (last.op = "removeListener" /\ Count(Before, last.fn) >= 1) =>
           \A f \in Listener :
               Count(After, f) = Count(Before, f) - (IF f = last.fn THEN 1 ELSE 0)

\* C10: removeListener(f), or a remover call, for a listener that has no
\* entry in the Registry leaves the Registry and the stored value unchanged.
C10_RemoveUnregisteredIsNoOp ==
    (last.op \in {"removeListener", "remover"} /\ Count(Before, last.fn) = 0) =>
        /\ listeners = last.pre.listeners
        /\ regIds = last.pre.regIds
        /\ value = last.pre.value

\* C10 witness: a second call of a remover whose listener is gone, on a
\* Registry that still holds another listener.
C10_Witness ==
    /\ last.op = "remover" /\ last.nth = 2
    /\ Count(Before, last.fn) = 0
    /\ Len(Before) > 0
    /\ After = Before

\* C11: when a listener throws during a dispatch, the exception reaches the
\* caller, the thrower is the last listener invoked, the entries after it in
\* the Registry are not invoked, the entries before it were invoked once each,
\* and the Registry is as before the call (but for what a self-removing
\* listener took out). Violated by the code in "the entries before it were
\* invoked once each": an entry after a self-removing listener is skipped.
C11_FailFast ==
    (last.op \in {"trigger", "setValue"}
        /\ \E k \in 1..Len(last.trace) : last.trace[k].fn \in Failing) =>
        LET k == Len(last.trace)
            p == PositionOf(BeforeIds, last.trace[k].reg)
        IN  /\ last.threw
            /\ last.trace[k].fn \in Failing
            /\ p > 0
            /\ \A j \in 1..Len(Before) :
                   /\ j > p => InvocationsOfReg(BeforeIds[j]) = 0
                   /\ j < p => InvocationsOfReg(BeforeIds[j]) = 1
            /\ (\A j \in 1..k : last.trace[j].fn \notin SelfRemoving) => After = Before

\* C12: a call of the joined remover in which nothing throws calls every
\* function it was made of once, in the order given, and afterwards none of
\* the registrations made by the evt calls that returned those removers is
\* in the Registry. Violated by the code in its last part: a remover deletes
\* the first entry holding its listener, which may be another registration.
C12_JoinedRemovesAllTargets ==
    (last.op = "joined" /\ \A i \in 1..Len(last.joined) : last.joined[i].kind = "remover") =>
        /\ last.called = [i \in 1..Len(last.joined) |-> i]
        /\ ~last.threw
        /\ \A i \in 1..Len(last.joined) :
               LET c == removers[last.joined[i].r]
               IN  PositionOf(regIds[c.src], c.reg) = 0

\* C13: when a function handed to joinRemoveListeners throws during a call of
\* the joined remover, every function after it in the list is still called.
\* Violated by the code: the loop has no try, the exception ends it.
C13_JoinedDoesNotShortCircuit ==
    last.op = "joined" =>
        \A i \in 1..Len(last.joined) : \A j \in 1..Len(last.joined) :
            (last.joined[i].kind = "throws" /\ i < j)
                => \E k \in 1..Len(last.called) : last.called[k] = j

\* C14: on the value-backed source trigger(v) and setValue(v) with a literal v
\* are the same operation but for setValue's return value: from every state
\* both leave the same stored value and Registry and make the same listener
\* invocations with the same arguments, ending by the same exception if any;
\* and every trigger(v) or literal setValue(v) that was called did what the
\* other would have done from the state it was called in.
C14_TriggerEqualsSetValue ==
    /\ \A v \in Value :
          valueTriggerBody(NowCalling(v), v) = setValueBody(NowCalling(v), Literal(v)).st
    /\ (last.op = "trigger" /\ last.src = "backed") =>
          LET other == setValueBody(last.pre, Literal(last.args[1])).st
          IN  /\ other.value = value
              /\ other.listeners = listeners
              /\ other.trace = last.trace
              /\ other.threw = last.threw
    /\ (last.op = "setValue" /\ last.next.typeof # "function") =>
          LET other == valueTriggerBody(last.pre, last.next.lit)
          IN  /\ other.value = value
              /\ other.listeners = listeners
              /\ other.trace = last.trace
              /\ other.threw = last.threw

\* A trigger(v) with a new value that invoked two listeners, one of which
\* removed itself.
C14_Witness ==
    /\ last.op = "trigger"
    /\ last.src = "backed"
    /\ last.args[1] # last.pre.value
    /\ Len(last.trace) = 2
    /\ Len(listeners["backed"]) < Len(last.pre.listeners["backed"])
    /\ setValueBody(last.pre, Literal(last.args[1])).st.trace = last.trace

\* C15: addListener and removeListener are symmetric on the custom source:
\* addListener(f) changes the Registry as evt(f) does, appending f; a trigger
\* called while f is registered invokes f; and addListener(f) then
\* removeListener(f), for an f not registered before, gives back the Registry
\* there was, so that a trigger then invokes what it would have invoked.
C15_AddRemoveSymmetry ==
    /\ last.op \in {"evt", "addListener"} => After = push(Before, last.fn)
    /\ (last.op = "trigger" /\ last.src = "custom" /\ ~last.threw) =>
          \A i \in 1..Len(Before) : Invocations(Before[i]) >= 1
    /\ \A f \in Listener :
          Count(listeners["custom"], f) = 0 =>
            LET pair == removeListenerOf(addListenerOf(Now, "custom", f), "custom", f)
            IN  /\ pair.listeners = listeners
                /\ forOfListeners(pair, "custom", <<>>, 1).trace
                     = forOfListeners(Now, "custom", <<>>, 1).trace

\* The source the last call was not made on.
OtherSource == IF last.src = "custom" THEN "backed" ELSE "custom"

\* C16: sources are independent. Both sources start with an empty Registry,
\* and a call on one source (evt, addListener, removeListener, a remover,
\* trigger, setValue, getValue) leaves the Registry of the other source as it
\* was, leaves the stored value alone when the call was on the custom source,
\* and invokes no registration of the other source.
C16_SourcesIndependent ==
    /\ last.op = "none" => \A src \in Source : listeners[src] = <<>>
    /\ last.op # "none" =>
          /\ listeners[OtherSource] = last.pre.listeners[OtherSource]
          /\ regIds[OtherSource] = last.pre.regIds[OtherSource]
          /\ last.src = "custom" => value = last.pre.value
          /\ \A k \in 1..Len(last.trace) :
                /\ \A i \in 1..Len(regIds[OtherSource]) :
                      last.trace[k].reg # regIds[OtherSource][i]
                /\ \E i \in 1..Len(BeforeIds) : last.trace[k].reg = BeforeIds[i]

\* A trigger of the custom source invoked s, which removed itself there, while
\* s is registered on the value-backed source too and stays so.
C16_Witness ==
    /\ last.op = "trigger"
    /\ last.src = "custom"
    /\ Len(last.trace) >= 1
    /\ last.trace[1].fn = "s"
    /\ Count(listeners["custom"], "s") < Count(last.pre.listeners["custom"], "s")
    /\ Count(listeners["backed"], "s") >= 1
    /\ listeners["backed"] = last.pre.listeners["backed"]

\* C17: every listener invocation made by a setValue or trigger call of the
\* value-backed source got as its argument the value getValue() returned at
\* the moment of the invocation, also after an earlier listener of the same
\* dispatch called setValue with another value.
C17_ArgumentIsStoredValue ==
    (last.op \in {"setValue", "trigger"} /\ last.src = "backed") =>
        \A k \in 1..Len(last.trace) : last.trace[k].args = <<last.trace[k].stored>>

\* A setValue call whose dispatch invoked plain listener f after a listener
\* had called setValue with another value: f got that value, not the one the
\* outer call stored.
C17_Witness ==
    /\ last.op = "setValue"
    /\ \E k \in 1..Len(last.trace) :
          /\ last.trace[k].fn = "f"
          /\ last.trace[k].args # <<Candidate>>
          /\ last.trace[k].args = <<last.trace[k].stored>>
    /\ \E k \in 1..Len(last.trace) : last.trace[k].fn = "n"

\* The value the last setValue or trigger call was to store.
CallCandidate == IF last.op = "trigger" THEN last.args[1] ELSE Candidate

\* C18 as claimed: a listener's exception does not undo the store. After a setValue or
\* trigger call of the value-backed source that ended by a listener's
\* exception, made with a value v other than the stored one, getValue()
\* returns v, and a setValue(v) or trigger(v) called next invokes no listener.
C18_FailureKeepsValue ==
    (last.op \in {"setValue", "trigger"} /\ last.src = "backed" /\ last.threw) =>
        /\ CallCandidate # last.pre.value
        /\ value = CallCandidate
        /\ setValueBody(Now, Literal(CallCandidate)).st.trace = <<>>
        /\ setValueBody(Now, Literal(CallCandidate)).ret = CallCandidate
        /\ valueTriggerBody(Now, CallCandidate).trace = <<>>

\* C18 as it holds: the exception does not undo any store. After such a call
\* getValue() returns the value stored last, which is v unless a listener of
\* the dispatch called setValue with another value before the failure, and a
\* setValue or trigger called next with that value invokes no listener.
C18_FailureKeepsLastStore ==
    (last.op \in {"setValue", "trigger"} /\ last.src = "backed" /\ last.threw) =>
        /\ CallCandidate # last.pre.value
        /\ value = lastChange
        /\ (\A k \in 1..Len(last.trace) : last.trace[k].stored = CallCandidate)
             => value = CallCandidate
        /\ setValueBody(Now, Literal(value)).st.trace = <<>>
        /\ setValueBody(Now, Literal(value)).ret = value
        /\ valueTriggerBody(Now, value).trace = <<>>

\* A setValue call in which t, registered first, threw, so that the listener
\* registered after it was not invoked; the value is stored all the same.
C18_Witness ==
    /\ last.op = "setValue"
    /\ last.threw
    /\ Len(last.pre.listeners["backed"]) = 2
    /\ Len(last.trace) = 1
    /\ last.trace[1].fn = "t"
    /\ value = Candidate
    /\ value # last.pre.value

\* The registrations a dispatch call made, and whether it removed none.
NewIds == {AfterIds[i] : i \in 1..Len(AfterIds)} \ {BeforeIds[i] : i \in 1..Len(BeforeIds)}
NoRemoval == \A i \in 1..Len(BeforeIds) : \E j \in 1..Len(AfterIds) : AfterIds[j] = BeforeIds[i]
InvokedAfterOlder(id) ==
    /\ InvocationsOfReg(id) >= 1
    /\ \A k1, k2 \in 1..Len(last.trace) :
          (last.trace[k1].reg = id /\ last.trace[k2].reg < id) => k2 < k1

C20_DispatchBounded ==
    (last.op = "trigger" /\ last.src = "custom") =>
        /\ Len(last.trace) <= Len(Before)
        /\ \A x \in Listener : Invocations(x) <= Count(Before, x)
        /\ \A i \in 1..Len(BeforeIds) : InvocationsOfReg(BeforeIds[i]) <= 1

\* A trigger over three registrations during which a listener removed itself
\* and the loop went on to invoke another listener.
C20_Witness ==
    /\ last.op = "trigger"
    /\ last.src = "custom"
    /\ Len(Before) = 3
    /\ Len(After) < Len(Before)
    /\ Len(last.trace) >= 2
    /\ \E k \in 1..(Len(last.trace) - 1) : last.trace[k].fn = "s"

====
